---------------------------- MODULE Spec2Model ----------------------------
(***************************************************************************)
(* Model of src/app.py: the pose-analysis helpers (calculate_angle,        *)
(* analyze_landmarks) and the /api/analyze request handler                 *)
(* (analyze_video_endpoint) running on Flask's threaded server with the    *)
(* single module-level landmarker.                                         *)
(*                                                                         *)
(* Units.  Landmark coordinates are integers counting steps of 0.05 of the *)
(* frame size (so the 0.05 head threshold is 1).  Angles are integers in   *)
(* thousandths of a degree.  Frame rates are integers in hundredths of a   *)
(* frame per second (29.97 fps is 2997).                                   *)
(***************************************************************************)
EXTENDS Integers, Sequences, FiniteSets, TLC

(***************************************************************************)
(* Bounds of the model.                                                    *)
(***************************************************************************)
\* longest landmark trace handed to analyze_landmarks on its own
MaxTraceLen == 3
\* most frames a video source yields before read() reports the end
MaxVideoFrames == 2

(***************************************************************************)
(* Program constants.                                                      *)
(***************************************************************************)
\* min_elbow_angle = 180                       (thousandths of a degree)
InitialMinElbowAngle == 180000
\* if min_elbow_angle < 90                     (thousandths of a degree)
BentThreshold == 90000
\* if angle > 180.0 / 360-angle                (thousandths of a degree)
HalfTurn == 180000
FullTurn == 360000
\* len(frame_landmarks) > 16
MinElbowPoints == 16
\* if movement > 0.05                          (steps of 0.05)
HeadThreshold == 1
\* fps = 30                                    (hundredths of a frame/s)
DefaultFps == 3000
\* MediaPipe pose landmarker: 33 points per person
PoseLandmarkCount == 33
\* landmark indices read by analyze_landmarks (0-based, as in the source)
NOSE == 0
RIGHT_SHOULDER == 12
RIGHT_ELBOW == 14
RIGHT_WRIST == 16

Abs(n) == IF n < 0 THEN -n ELSE n

(***************************************************************************)
(* np.arctan2(y, x) in thousandths of a degree, for the directions the     *)
(* model's grid produces (slopes 0, 1/2, 1, 2 and vertical).               *)
(***************************************************************************)
QuadrantAngle(ay, ax) ==
    CASE ay = 0      -> 0
      [] ax = 0      -> 90000
      [] ay = ax     -> 45000
      [] 2 * ay = ax -> 26565
      [] ay = 2 * ax -> 63435

arctan2(y, x) ==
    LET q == QuadrantAngle(Abs(y), Abs(x))
    IN  CASE x >= 0 /\ y >= 0 -> q
          [] x < 0  /\ y >= 0 -> HalfTurn - q
          [] x < 0  /\ y < 0  -> q - HalfTurn
          [] x >= 0 /\ y < 0  -> 0 - q

\* calculate_angle(a, b, c): points are <<x, y>>
calculate_angle(a, b, c) ==
    LET radians == arctan2(c[2] - b[2], c[1] - b[1])
                     - arctan2(a[2] - b[2], a[1] - b[1])
        angle   == Abs(radians)
    IN  IF angle > HalfTurn THEN FullTurn - angle ELSE angle

\* frame_landmarks[i] with the source's 0-based index
At(frame, i) == frame[i + 1]

\* if frame_landmarks and len(frame_landmarks) > 16
HasElbowPoints(frame) == frame # <<>> /\ Len(frame) > MinElbowPoints

ElbowAngleOf(frame) ==
    calculate_angle(<<At(frame, RIGHT_SHOULDER).x, At(frame, RIGHT_SHOULDER).y>>,
                    <<At(frame, RIGHT_ELBOW).x, At(frame, RIGHT_ELBOW).y>>,
                    <<At(frame, RIGHT_WRIST).x, At(frame, RIGHT_WRIST).y>>)

\* the loop over landmarks_per_frame that lowers min_elbow_angle
RECURSIVE MinElbowAngleFrom(_, _)
MinElbowAngleFrom(trace, acc) ==
    IF trace = <<>> THEN acc
    ELSE LET f == Head(trace)
             next == IF HasElbowPoints(f) /\ ElbowAngleOf(f) < acc
                     THEN ElbowAngleOf(f) ELSE acc
         IN  MinElbowAngleFrom(Tail(trace), next)

min_elbow_angle(trace) == MinElbowAngleFrom(trace, InitialMinElbowAngle)

(***************************************************************************)
(* Feedback lines: the text, and the integer the f-string interpolates.    *)
(***************************************************************************)
Line(text) == [text |-> text, deg |-> <<>>]
BentLine(minAngle) == [text |-> "Your arm is quite bent.",
                       deg |-> <<minAngle \div 1000>>]
GoodExtensionLine == Line("Good arm extension! Your elbow angle looks solid.")
NoElbowLine == Line("Could not determine elbow angle. Make sure your arm is visible.")
HeadMovingLine == Line("You are moving your head vertically during the stroke.")
HeadStableLine == Line("Excellent head stability! Keeping your head still is key.")
NoHeadLine == Line("Could not determine head movement.")

IsElbowLine(l) == l.text \in {BentLine(0).text, GoodExtensionLine.text, NoElbowLine.text}
IsHeadLine(l) == l \in {HeadMovingLine, HeadStableLine, NoHeadLine}

\* 1. Elbow Angle Analysis: the if / elif / else on min_elbow_angle
ElbowFeedback(trace) ==
    LET m == min_elbow_angle(trace)
    IN  IF m < BentThreshold THEN <<BentLine(m)>>
        ELSE IF m # InitialMinElbowAngle THEN <<GoodExtensionLine>>
        ELSE <<NoElbowLine>>

\* a head section that reports "could not determine" whenever it cannot measure
HeadFeedbackAlwaysReports(trace) ==
    IF Len(trace) > 1 /\ trace[1] # <<>> /\ trace[Len(trace)] # <<>>
    THEN IF Abs(At(trace[1], NOSE).y - At(trace[Len(trace)], NOSE).y) > HeadThreshold
         THEN <<HeadMovingLine>> ELSE <<HeadStableLine>>
    ELSE <<NoHeadLine>>

\* 2. Head Movement Analysis: the outer if, the inner if / else
HeadFeedback(trace) ==
    IF trace # <<>> /\ Len(trace) > 1 /\ trace[1] # <<>> /\ trace[Len(trace)] # <<>>
    THEN IF Len(trace[1]) > 0 /\ Len(trace[Len(trace)]) > 0
         THEN LET initial_nose_y == At(trace[1], NOSE).y
                  final_nose_y   == At(trace[Len(trace)], NOSE).y
                  movement       == Abs(initial_nose_y - final_nose_y)
              IN  IF movement > HeadThreshold
                  THEN <<HeadMovingLine>>
                  ELSE <<HeadStableLine>>
         ELSE <<NoHeadLine>>
    ELSE <<>>

analyze_landmarks(trace) == ElbowFeedback(trace) \o HeadFeedback(trace)

(***************************************************************************)
(* Landmarks and the frames the model feeds to the analysis.               *)
(***************************************************************************)
Landmark(x, y) == [x |-> x, y |-> y, z |-> 0, visibility |-> 1]

\* a frame of n points: nose at height noseY, the right arm at arm = <<s, e, w>>
MkFrame(n, noseY, arm) ==
    [i \in 1..n |->
        CASE i = NOSE + 1           -> Landmark(1, noseY)
          [] i = RIGHT_SHOULDER + 1 -> Landmark(arm[1][1], arm[1][2])
          [] i = RIGHT_ELBOW + 1    -> Landmark(arm[2][1], arm[2][2])
          [] i = RIGHT_WRIST + 1    -> Landmark(arm[3][1], arm[3][2])
          [] OTHER                  -> Landmark(1, 1)]

ArmStraight    == << <<0, 1>>, <<1, 1>>, <<2, 1>> >>   \* 180 degrees
ArmRightAngle  == << <<1, 0>>, <<1, 1>>, <<2, 1>> >>   \* 90 degrees
ArmBent45      == << <<2, 0>>, <<1, 1>>, <<2, 1>> >>   \* 45 degrees
ArmBent18      == << <<2, 1>>, <<0, 0>>, <<2, 2>> >>   \* 18.435 degrees
ArmFolded      == << <<0, 0>>, <<1, 1>>, <<0, 2>> >>   \* 270 folded to 90
ArmOpen135     == << <<0, 0>>, <<1, 1>>, <<2, 1>> >>   \* 135 degrees

EmptyFrame == <<>>

Frames ==
    {EmptyFrame, MkFrame(MinElbowPoints, 0, ArmBent45)}
    \cup {MkFrame(MinElbowPoints + 1, 0, a) :
            a \in {ArmStraight, ArmRightAngle, ArmBent45, ArmBent18,
                   ArmFolded, ArmOpen135}}
    \cup {MkFrame(PoseLandmarkCount, y, a) :
            y \in {1, 2}, a \in {ArmStraight, ArmBent45}}

\* ten frames, the first nine empty, the last with 17 points and an open arm
ScenarioTrace ==
    [i \in 1..10 |-> IF i < 10 THEN EmptyFrame
                     ELSE MkFrame(MinElbowPoints + 1, 1, ArmOpen135)]

Traces == UNION {[1..n -> Frames] : n \in 0..MaxTraceLen} \cup {ScenarioTrace}

(***************************************************************************)
(* State.                                                                  *)
(***************************************************************************)
VARIABLES
    \* analyze_landmarks called on its own: argument, return value, returned
    landmarks_per_frame, feedback, called,
    \* the process: the uploads folder and the module-level landmarker, whose
    \* tracking state is keyed on the last detect_for_video call it received
    files, landmarker,
    \* each request handler: position and locals of analyze_video_endpoint
    pc, video_path, cap, fps, frame_number, all_landmarks, response,
    \* history of each request: what the source turned out to be, the frames
    \* read() delivered, the detect calls made, the exception raised
    source, decoded, calls, fault

vars == <<landmarks_per_frame, feedback, called, files, landmarker,
          pc, video_path, cap, fps, frame_number, all_landmarks, response,
          source, decoded, calls, fault>>

analysisVars == <<landmarks_per_frame, feedback, called>>
serverVars == <<files, landmarker, pc, video_path, cap, fps, frame_number,
                all_landmarks, response, source, decoded, calls, fault>>

\* the requests in flight on the threaded development server
Requests == {"A", "B"}
\* secure_filename(file.filename) joined to the uploads folder
FileNames == {"uploads/serve.mp4", "uploads/volley.mp4"}
\* cap.get(cv2.CAP_PROP_FPS), hundredths of a frame per second
FpsMetadata == {0, 200000}

\* pose_landmarker_result.pose_landmarks: a list of persons, 33 points each
PersonA == MkFrame(PoseLandmarkCount, 1, ArmOpen135)
PersonB == MkFrame(PoseLandmarkCount, 2, ArmBent45)
DetectorResults == {<<>>, <<PersonB, PersonA>>}

NoResponse == [status |-> 0, error |-> "", message |-> "",
               landmarks |-> <<>>, feedback |-> <<>>]
ErrorResponse(status, text) ==
    [status |-> status, error |-> text, message |-> "",
     landmarks |-> <<>>, feedback |-> <<>>]
SuccessResponse(trace, lines) ==
    [status |-> 200, error |-> "", message |-> "Analysis successful",
     landmarks |-> trace, feedback |-> lines]

\* frame_timestamp_ms = int((frame_number / fps) * 1000)
frame_timestamp_ms(n, rate) == (n * 1000 * 100) \div rate

\* frame_landmarks: the first person's points, or [] when nobody was found
FrameLandmarksOf(persons) == IF persons # <<>> THEN persons[1] ELSE <<>>

\* an append that drops the frames in which nobody was found
AppendDetectedOnly(trace, persons) ==
    IF persons # <<>> THEN Append(trace, FrameLandmarksOf(persons)) ELSE trace

\* all_landmarks.append(frame_landmarks)
AppendFrameLandmarks(trace, persons) == Append(trace, FrameLandmarksOf(persons))

InitAnalysis ==
    /\ feedback = <<>>
    /\ called = FALSE

InitServer ==
    /\ files = {}
    /\ landmarker = [req |-> "none", ts |-> -1]
    /\ pc = [r \in Requests |-> "idle"]
    /\ video_path = [r \in Requests |-> ""]
    /\ cap = [r \in Requests |-> "none"]
    /\ fps = [r \in Requests |-> 0]
    /\ frame_number = [r \in Requests |-> 0]
    /\ all_landmarks = [r \in Requests |-> <<>>]
    /\ response = [r \in Requests |-> NoResponse]
    /\ source = [r \in Requests |-> "none"]
    /\ decoded = [r \in Requests |-> 0]
    /\ calls = [r \in Requests |-> <<>>]
    /\ fault = [r \in Requests |-> "none"]

Init ==
    /\ landmarks_per_frame = <<>>
    /\ InitAnalysis
    /\ InitServer

(***************************************************************************)
(* analyze_video_endpoint, one action per step of the handler.             *)
(***************************************************************************)
\* 'video' not in request.files, or file.filename == '': 400, nothing saved
RejectUpload(r) ==
    /\ pc[r] = "idle"
    /\ \E text \in {"No video file provided", "No selected file"} :
          response' = [response EXCEPT ![r] = ErrorResponse(400, text)]
    /\ pc' = [pc EXCEPT ![r] = "done"]
    /\ UNCHANGED <<files, landmarker, video_path, cap, fps, frame_number,
                   all_landmarks, source, decoded, calls, fault>>
    /\ UNCHANGED analysisVars

\* file.save(video_path)
SaveUpload(r) ==
    /\ pc[r] = "idle"
    /\ \E name \in FileNames :
          /\ video_path' = [video_path EXCEPT ![r] = name]
          /\ files' = files \cup {name}
    /\ pc' = [pc EXCEPT ![r] = "open"]
    /\ UNCHANGED <<landmarker, cap, fps, frame_number, all_landmarks,
                   response, source, decoded, calls, fault>>
    /\ UNCHANGED analysisVars

\* cap = cv2.VideoCapture(video_path); fps with its fallback; the two locals
OpenCapture(r) ==
    /\ pc[r] = "open"
    /\ \E openable \in BOOLEAN, meta \in FpsMetadata :
          LET opened   == video_path[r] \in files /\ openable
              reported == IF opened THEN meta ELSE 0
          IN  /\ cap' = [cap EXCEPT ![r] = IF opened THEN "open" ELSE "closed"]
              /\ source' = [source EXCEPT ![r] =
                               IF opened THEN "opened" ELSE "unopenable"]
              /\ fps' = [fps EXCEPT ![r] =
                               IF reported = 0 THEN DefaultFps ELSE reported]
    /\ all_landmarks' = [all_landmarks EXCEPT ![r] = <<>>]
    /\ frame_number' = [frame_number EXCEPT ![r] = 0]
    /\ pc' = [pc EXCEPT ![r] = "loop"]
    /\ UNCHANGED <<files, landmarker, video_path, response, decoded, calls, fault>>
    /\ UNCHANGED analysisVars

\* while cap.isOpened(): ret, frame = cap.read(); if not ret: break
ReadFrame(r) ==
    /\ pc[r] = "loop"
    /\ \/ /\ cap[r] # "open"
          /\ pc' = [pc EXCEPT ![r] = "release"]
          /\ UNCHANGED decoded
       \/ /\ cap[r] = "open"
          /\ decoded[r] < MaxVideoFrames
          /\ decoded' = [decoded EXCEPT ![r] = @ + 1]
          /\ pc' = [pc EXCEPT ![r] = "frame"]
       \/ /\ cap[r] = "open"
          /\ pc' = [pc EXCEPT ![r] = "release"]
          /\ UNCHANGED decoded
    /\ UNCHANGED <<files, landmarker, video_path, cap, fps, frame_number,
                   all_landmarks, response, source, calls, fault>>
    /\ UNCHANGED analysisVars

\* the loop body: convert, timestamp, detect_for_video, append, count
ProcessFrame(r) ==
    /\ pc[r] = "frame"
    /\ LET ts == frame_timestamp_ms(frame_number[r], fps[r])
       IN  \/ \* cv2.cvtColor / mp.Image raises
              /\ fault' = [fault EXCEPT ![r] = "convert"]
              /\ pc' = [pc EXCEPT ![r] = "except"]
              /\ UNCHANGED <<landmarker, calls, all_landmarks, frame_number>>
           \/ \* landmarker.detect_for_video raises
              /\ landmarker' = [req |-> r, ts |-> ts]
              /\ calls' = [calls EXCEPT ![r] =
                             Append(@, [frame |-> decoded[r] - 1, ts |-> ts,
                                        raised |-> TRUE, persons |-> <<>>])]
              /\ fault' = [fault EXCEPT ![r] = "detect"]
              /\ pc' = [pc EXCEPT ![r] = "except"]
              /\ UNCHANGED <<all_landmarks, frame_number>>
           \/ \* landmarker.detect_for_video returns
              \E persons \in DetectorResults :
                 /\ landmarker' = [req |-> r, ts |-> ts]
                 /\ calls' = [calls EXCEPT ![r] =
                                Append(@, [frame |-> decoded[r] - 1, ts |-> ts,
                                           raised |-> FALSE, persons |-> persons])]
                 /\ all_landmarks' = [all_landmarks EXCEPT ![r] =
                                        AppendFrameLandmarks(@, persons)]
                 /\ frame_number' = [frame_number EXCEPT ![r] = @ + 1]
                 /\ pc' = [pc EXCEPT ![r] = "loop"]
                 /\ UNCHANGED fault
    /\ UNCHANGED <<files, video_path, cap, fps, response, source, decoded>>
    /\ UNCHANGED analysisVars

\* cap.release(), reached only when the loop ends without an exception
ReleaseCapture(r) ==
    /\ pc[r] = "release"
    /\ cap' = [cap EXCEPT ![r] = "released"]
    /\ pc' = [pc EXCEPT ![r] = "analyze"]
    /\ UNCHANGED <<files, landmarker, video_path, fps, frame_number,
                   all_landmarks, response, source, decoded, calls, fault>>
    /\ UNCHANGED analysisVars

\* feedback = analyze_landmarks(all_landmarks); return jsonify({...})
RespondSuccess(r) ==
    /\ pc[r] = "analyze"
    /\ response' = [response EXCEPT ![r] =
                      SuccessResponse(all_landmarks[r],
                                      analyze_landmarks(all_landmarks[r]))]
    /\ pc' = [pc EXCEPT ![r] = "finally"]
    /\ UNCHANGED <<files, landmarker, video_path, cap, fps, frame_number,
                   all_landmarks, source, decoded, calls, fault>>
    /\ UNCHANGED analysisVars

\* an except clause that returns without reaching the clean-up
HandleExceptionNoCleanup(r) ==
    /\ pc[r] = "except"
    /\ response' = [response EXCEPT ![r] = ErrorResponse(500, fault[r])]
    /\ pc' = [pc EXCEPT ![r] = "done"]
    /\ UNCHANGED <<files, landmarker, video_path, cap, fps, frame_number,
                   all_landmarks, source, decoded, calls, fault>>
    /\ UNCHANGED analysisVars

\* except Exception as e: return jsonify({'error': str(e)}), 500
HandleException(r) ==
    /\ pc[r] = "except"
    /\ response' = [response EXCEPT ![r] = ErrorResponse(500, fault[r])]
    /\ pc' = [pc EXCEPT ![r] = "finally"]
    /\ UNCHANGED <<files, landmarker, video_path, cap, fps, frame_number,
                   all_landmarks, source, decoded, calls, fault>>
    /\ UNCHANGED analysisVars

\* finally: if os.path.exists(video_path): os.remove(video_path)
CleanUp(r) ==
    /\ pc[r] = "finally"
    /\ files' = IF video_path[r] \in files THEN files \ {video_path[r]} ELSE files
    /\ pc' = [pc EXCEPT ![r] = "done"]
    /\ UNCHANGED <<landmarker, video_path, cap, fps, frame_number,
                   all_landmarks, response, source, decoded, calls, fault>>
    /\ UNCHANGED analysisVars

Next ==
    \E r \in Requests :
       \/ RejectUpload(r)
       \/ SaveUpload(r)
       \/ OpenCapture(r)
       \/ ReadFrame(r)
       \/ ProcessFrame(r)
       \/ ReleaseCapture(r)
       \/ RespondSuccess(r)
       \/ HandleException(r)
       \/ CleanUp(r)

Spec == Init /\ [][Next]_vars

(***************************************************************************)
(* analyze_landmarks on its own, over every trace of the bounded set.      *)
(***************************************************************************)
InitAnalyze ==
    /\ landmarks_per_frame \in Traces
    /\ InitAnalysis
    /\ InitServer

CallAnalyze ==
    /\ ~called
    /\ feedback' = analyze_landmarks(landmarks_per_frame)
    /\ called' = TRUE
    /\ UNCHANGED landmarks_per_frame
    /\ UNCHANGED serverVars

NextAnalyze == CallAnalyze

SpecAnalyze == InitAnalyze /\ [][NextAnalyze]_vars

(***************************************************************************)
(* Properties of analyze_landmarks (checked under SpecAnalyze).            *)
(***************************************************************************)
Lines(report) == {report[i] : i \in DOMAIN report}

\* C1: every trace of at least 2 frames whose first or last frame is empty
\* gets the "Could not determine head movement" line in its feedback.
C1_NoHeadLineWhenEndpointEmpty ==
    (called /\ Len(landmarks_per_frame) >= 2
       /\ (landmarks_per_frame[1] = <<>>
             \/ landmarks_per_frame[Len(landmarks_per_frame)] = <<>>))
    => NoHeadLine \in Lines(feedback)

\* C8: the "Could not determine elbow angle" line is emitted if and only if
\* no frame is non-empty with at least 17 points; with such a frame the elbow
\* line is the 'quite bent' line or the 'Good arm extension' line.
C8_NoElbowLineIffNoQualifyingFrame ==
    called =>
       LET qualifying == \E i \in DOMAIN landmarks_per_frame :
                            Len(landmarks_per_frame[i]) >= 17
       IN  /\ (NoElbowLine \in Lines(feedback)) <=> ~qualifying
           /\ qualifying => \/ feedback[1] = GoodExtensionLine
                            \/ feedback[1].text = BentLine(0).text

\* C10: the feedback is exactly one elbow line at position 0, followed by at
\* most one head-stability line; for a trace of fewer than 2 frames it is
\* the single elbow line.
C10_ElbowLineThenAtMostOneHeadLine ==
    called =>
       /\ Len(feedback) \in {1, 2}
       /\ IsElbowLine(feedback[1])
       /\ Len(feedback) = 2 => IsHeadLine(feedback[2]) /\ ~IsElbowLine(feedback[2])
       /\ Len(landmarks_per_frame) < 2 => Len(feedback) = 1

\* a one-frame trace with a detected person has been analysed
C10_Witness ==
    /\ called
    /\ Len(landmarks_per_frame) = 1
    /\ landmarks_per_frame[1] # <<>>
    /\ Len(feedback) = 1

(***************************************************************************)
(* Properties of analyze_video_endpoint (checked under Spec).              *)
(***************************************************************************)
\* C2: a detector failure on one frame (detect_for_video raising, or
\* returning nobody) never aborts the request: an empty FrameLandmarks is
\* appended for that frame, and unless a frame conversion fails the request
\* ends with the success response.
C2_DetectorFailureNeverAborts ==
    \A r \in Requests : \A k \in DOMAIN calls[r] :
       (calls[r][k].raised \/ calls[r][k].persons = <<>>) =>
          /\ Len(all_landmarks[r]) >= k
          /\ all_landmarks[r][k] = <<>>
          /\ (pc[r] = "done" /\ fault[r] # "convert") => response[r].status = 200

\* C3: no request ends with an opened video source that was not released.
C3_SourceReleasedOnEveryExit ==
    \A r \in Requests :
       (pc[r] = "done" /\ source[r] = "opened") => cap[r] = "released"

\* C4: a request whose video source could not be opened ends with the error
\* body and status 500, never with 'Analysis successful'.
C4_UnopenableSourceIsAnError ==
    \A r \in Requests :
       (pc[r] = "done" /\ source[r] = "unopenable") =>
          /\ response[r].status = 500
          /\ response[r].message # "Analysis successful"

\* C5: the timestamp of frame i is floor(i / fps * 1000), and the timestamps
\* one video passes to the detector are strictly increasing.
C5_TimestampsStrictlyIncreasing ==
    \A r \in Requests : \A i \in DOMAIN calls[r] :
       /\ calls[r][i].ts = ((i - 1) * 100000) \div fps[r]
       /\ \A j \in DOMAIN calls[r] : i < j => calls[r][i].ts < calls[r][j].ts

\* C6: the detect calls of one video are never interleaved with those of
\* another: when a request that has already called the detector calls it
\* again, the call the detector received last was that request's own.
C6_DetectCallsNotInterleaved ==
    [][\A r \in Requests :
          (calls'[r] # calls[r] /\ calls[r] # <<>>) => landmarker.req = r]_vars

\* C7: when a request that saved its upload returns, on any outcome, no file
\* exists at its video_path.
C7_UploadRemovedOnReturn ==
    [][\A r \in Requests :
          (pc[r] # "done" /\ pc'[r] = "done" /\ video_path[r] # "")
             => video_path[r] \notin files']_vars

\* a request that saved its upload has returned the 500 response
C7_Witness ==
    \E r \in Requests :
       /\ pc[r] = "done"
       /\ video_path[r] # ""
       /\ response[r].status = 500
       /\ video_path[r] \notin files

\* C9: in a request that runs to the end of the video the detector is called
\* once per decoded frame, in frame order, and the trace has one entry per
\* decoded frame, entry k being the result for frame k.
RanToEnd(r) ==
    \/ pc[r] \in {"release", "analyze"}
    \/ pc[r] \in {"finally", "done"} /\ response[r].status = 200

C9_OneCallAndOneEntryPerFrame ==
    \A r \in Requests :
       RanToEnd(r) =>
          /\ Len(calls[r]) = decoded[r]
          /\ Len(all_landmarks[r]) = decoded[r]
          /\ \A k \in 1..decoded[r] :
                /\ calls[r][k].frame = k - 1
                /\ ~calls[r][k].raised
                /\ all_landmarks[r][k] =
                      IF calls[r][k].persons = <<>> THEN <<>>
                      ELSE calls[r][k].persons[1]
          /\ response[r].status = 200 => response[r].landmarks = all_landmarks[r]

\* a request has returned success for a video of two or more frames, one of
\* them without a detected person
C9_Witness ==
    \E r \in Requests :
       /\ pc[r] = "done"
       /\ response[r].status = 200
       /\ decoded[r] >= 2
       /\ \E k \in DOMAIN calls[r] : calls[r][k].persons = <<>>
       /\ \E k \in DOMAIN calls[r] : calls[r][k].persons # <<>>
=============================================================================
